---- MODULE Spec2Model ----
(***************************************************************************)
(* Model of the sentiment-analysis Spin component (src/src/lib.rs).        *)
(*                                                                         *)
(* Strings are sequences of one-character strings, byte strings are        *)
(* sequences of numbers.  Option values are sequences of length <= 1       *)
(* (<<>> is None, <<x>> is Some(x)).                                       *)
(***************************************************************************)
EXTENDS Naturals, Sequences, FiniteSets

VARIABLES store, req, ptext, pstage, pval, pres

vars == <<store, req, ptext, pstage, pval, pres>>

(***************************************************************************)
(* Bounds of the model.                                                    *)
(***************************************************************************)
\* number of requests the hosting environment runs (possibly concurrently)
MaxRequests == 2
\* longest run of blanks around each part of a generated first line
MaxPad == 1

Requests == 1..MaxRequests

(***************************************************************************)
(* Option and string helpers.                                              *)
(***************************************************************************)
None == <<>>
Some(x) == <<x>>
IsSome(o) == Len(o) = 1
Unwrapped(o) == o[1]

EmptyStr == <<>>

\* Option<&str>::unwrap_or_default (lib.rs lines 102 and 104)
unwrap_or_default(o) == IF IsSome(o) THEN Unwrapped(o) ELSE EmptyStr

\* char::is_whitespace, restricted to the characters the model uses
IsWhitespace(c) == c \in {" ", "\t", "\n", "\r"}

RECURSIVE trim_start(_)
trim_start(s) ==
    IF s = EmptyStr THEN EmptyStr
    ELSE IF IsWhitespace(Head(s)) THEN trim_start(Tail(s))
    ELSE s

RECURSIVE trim_end(_)
trim_end(s) ==
    IF s = EmptyStr THEN EmptyStr
    ELSE IF IsWhitespace(s[Len(s)]) THEN trim_end(SubSeq(s, 1, Len(s) - 1))
    ELSE s

\* str::trim (lib.rs lines 59 and 179)
trim(s) == trim_end(trim_start(s))

\* index of the first "\n" of s, or 0
NewlineAt(s) ==
    IF \E i \in 1..Len(s) : s[i] = "\n"
    THEN CHOOSE i \in 1..Len(s) : s[i] = "\n" /\ \A j \in 1..(i - 1) : s[j] # "\n"
    ELSE 0

\* str::lines().next() (lib.rs lines 100-101): None for the empty text, else
\* the text up to the first "\n"; a "\r" right before that "\n" belongs to
\* the line ending
lines_next(text) ==
    IF text = EmptyStr THEN None
    ELSE LET n == NewlineAt(text) IN
         IF n = 0 THEN Some(text)
         ELSE IF n > 1 /\ text[n - 1] = "\r" THEN Some(SubSeq(text, 1, n - 2))
         ELSE Some(SubSeq(text, 1, n - 1))

BotMarker == <<"B", "o", "t", ":">>

\* str::strip_prefix handing back the whole string when the prefix is absent
strip_prefix_mut_optional(s, p) ==
    IF Len(s) >= Len(p) /\ SubSeq(s, 1, Len(p)) = p
    THEN Some(SubSeq(s, Len(p) + 1, Len(s)))
    ELSE Some(s)

\* str::strip_prefix (lib.rs line 103)
strip_prefix(s, p) ==
    IF Len(s) >= Len(p) /\ SubSeq(s, 1, Len(p)) = p
    THEN Some(SubSeq(s, Len(p) + 1, Len(s)))
    ELSE None

(***************************************************************************)
(* enum Sentiment and its conversions (lib.rs lines 146-187).              *)
(***************************************************************************)
Sentiment == {"Positive", "Negative", "Neutral"}

\* the Err of Sentiment::from_str ("Invalid sentiment: ...")
InvalidSentiment == "InvalidSentiment"

str_positive == <<"p", "o", "s", "i", "t", "i", "v", "e">>
str_negative == <<"n", "e", "g", "a", "t", "i", "v", "e">>
str_neutral == <<"n", "e", "u", "t", "r", "a", "l">>

Labels == {str_positive, str_negative, str_neutral}

\* Sentiment::as_str with the strings of two arms exchanged
as_str_mut_swapped(sentiment) ==
    CASE sentiment = "Positive" -> str_positive
      [] sentiment = "Negative" -> str_neutral
      [] sentiment = "Neutral" -> str_negative

\* Sentiment::as_str (lib.rs lines 154-160)
as_str(sentiment) ==
    CASE sentiment = "Positive" -> str_positive
      [] sentiment = "Negative" -> str_negative
      [] sentiment = "Neutral" -> str_neutral

\* <Sentiment as FromStr>::from_str without its trim
from_str_mut_notrim(s) ==
    CASE s = str_positive -> "Positive"
      [] s = str_negative -> "Negative"
      [] s = str_neutral -> "Neutral"
      [] OTHER -> InvalidSentiment

\* <Sentiment as FromStr>::from_str (lib.rs lines 178-186)
from_str(s) ==
    LET t == trim(s) IN
    CASE t = str_positive -> "Positive"
      [] t = str_negative -> "Negative"
      [] t = str_neutral -> "Neutral"
      [] OTHER -> InvalidSentiment

IsOk(sentiment) == sentiment \in Sentiment

\* to_string through the derived Debug form, the variant's name
to_string_mut_debug(sentiment) ==
    CASE sentiment = "Positive" -> <<"P", "o", "s", "i", "t", "i", "v", "e">>
      [] sentiment = "Negative" -> <<"N", "e", "g", "a", "t", "i", "v", "e">>
      [] sentiment = "Neutral" -> <<"N", "e", "u", "t", "r", "a", "l">>

\* Display for Sentiment, used by ToString::to_string (lib.rs lines 163-167)
to_string(sentiment) == as_str(sentiment)

\* .lines().next().unwrap_or_default() (lib.rs lines 100-102)
first_line(text) == unwrap_or_default(lines_next(text))

\* .strip_prefix("Bot:").unwrap_or_default() (lib.rs lines 103-104)
strip_marker(line) == unwrap_or_default(strip_prefix(line, BotMarker))

\* the chain of lib.rs lines 98-105 applied to the generated text
parse_sentiment(text) == from_str(strip_marker(first_line(text)))

(***************************************************************************)
(* Bytes: str::as_bytes and String::from_utf8 on the ASCII letters the     *)
(* labels are made of.                                                     *)
(***************************************************************************)
AsciiLetters == {"a", "e", "g", "i", "l", "n", "o", "p", "r", "s", "t", "u", "v"}

Utf8Code(c) ==
    CASE c = "a" -> 97 [] c = "e" -> 101 [] c = "g" -> 103 [] c = "i" -> 105
      [] c = "l" -> 108 [] c = "n" -> 110 [] c = "o" -> 111 [] c = "p" -> 112
      [] c = "r" -> 114 [] c = "s" -> 115 [] c = "t" -> 116 [] c = "u" -> 117
      [] c = "v" -> 118

\* str::as_bytes losing the last byte
as_bytes_mut_truncated(s) == [i \in 1..(Len(s) - 1) |-> Utf8Code(s[i])]

\* str::as_bytes (lib.rs line 110)
as_bytes(s) == [i \in 1..Len(s) |-> Utf8Code(s[i])]

\* String::from_utf8 (lib.rs line 76): Ok(text) is Some(text), Err is None
from_utf8(bytes) ==
    IF \A i \in 1..Len(bytes) : \E c \in AsciiLetters : Utf8Code(c) = bytes[i]
    THEN Some([i \in 1..Len(bytes) |-> CHOOSE c \in AsciiLetters : Utf8Code(c) = bytes[i]])
    ELSE None

(***************************************************************************)
(* Requests, responses and the key-value store.                            *)
(***************************************************************************)
\* status of the success responses (lib.rs lines 81 and 123)
OkStatus == 200
\* status the Spin SDK gives a handler's Err(anyhow::Error); every `?` of
\* perform_sentiment_analysis leaves through it
ErrStatus == 500

\* sentences of the well-formed request bodies
Sentences == {<<"a">>, <<" ", "a">>, EmptyStr, <<" ">>}

\* request bodies: absent, not the JSON of a SentimentAnalysisRequest, or one
Bodies ==
    {[kind |-> "absent", sentence |-> EmptyStr], [kind |-> "malformed", sentence |-> EmptyStr]}
        \cup {[kind |-> "json", sentence |-> s] : s \in Sentences}

\* keys the handler can address: the trimmed sentences
Keys == {trim(s) : s \in Sentences}

\* body_json_to_map (lib.rs lines 137-144): Some(request) or None for Err
body_json_to_map(body) ==
    IF body.kind = "absent" THEN None
    ELSE IF body.kind = "malformed" THEN None
    ELSE Some([sentence |-> body.sentence])

\* const PROMPT (lib.rs lines 23-41); its text before {SENTENCE} is one token
PROMPT == <<"<<SYS>>...User: ", "{SENTENCE}", "\n">>

RECURSIVE replace(_, _, _)
\* str::replace (lib.rs line 89)
replace(template, from, to) ==
    IF template = <<>> THEN <<>>
    ELSE (IF Head(template) = from THEN to ELSE <<Head(template)>>)
             \o replace(Tail(template), from, to)

\* texts the model generates in the pipeline runs
txt_bot_positive == BotMarker \o <<" ">> \o str_positive
txt_bot_neutral == BotMarker \o <<" ">> \o str_neutral
txt_bot_negative_more == BotMarker \o <<" ">> \o str_negative \o <<"\n">> \o str_positive
txt_positive == str_positive
txt_bot_Positive == BotMarker \o <<" ", "P", "o", "s", "i", "t", "i", "v", "e">>
txt_bot_positive_ish ==
    BotMarker \o <<" ", "s", "o", "m", "e", "w", "h", "a", "t", " ">> \o str_positive
        \o <<"-", "i", "s", "h">>
txt_empty == EmptyStr

Texts ==
    {txt_bot_positive, txt_bot_neutral, txt_bot_negative_more, txt_positive,
     txt_bot_Positive, txt_bot_positive_ish, txt_empty}

NoResponse == [kind |-> "none", status |-> 0, err |-> "", sentiment |-> EmptyStr]

\* send_ok_response (lib.rs lines 132-135) of SentimentAnalysisResponse{sentiment}
send_ok_response(code, sentiment) ==
    [kind |-> "response", status |-> code, err |-> "", sentiment |-> sentiment]

\* the `?` operator: the handler returns Err(e)
Propagate(e) == [kind |-> "error", status |-> ErrStatus, err |-> e, sentiment |-> EmptyStr]

\* Option::unwrap on None: the handler panics and returns nothing
Panicked == [kind |-> "panic", status |-> 0, err |-> "unwrap", sentiment |-> EmptyStr]

IdleRequest ==
    [pc |-> "idle", body |-> [kind |-> "absent", sentence |-> EmptyStr],
     sentence |-> EmptyStr, open |-> "unissued", get |-> "unissued",
     prompt |-> None, infer |-> "unissued", text |-> EmptyStr, sentiment |-> "unset",
     set |-> "unissued", changed |-> FALSE, response |-> NoResponse, after |-> {},
     calls |-> <<>>]

\* one call of the request to a collaborator: kv.get(arg), kv.set(arg, val) or
\* infer_with_options(.., arg, ..), in the order the calls are made
Call(op, arg, val) == [op |-> op, arg |-> arg, val |-> val]
Called(rq, op, arg, val) == [rq EXCEPT !.calls = Append(rq.calls, Call(op, arg, val))]

Finish(rq, resp) == [rq EXCEPT !.pc = "done", !.response = resp]

\* lib.rs lines 57-60 rejecting a sentence that is empty after the trim
Decode_mut_rejectempty(rq, body) ==
    LET request == body_json_to_map(body) IN
    IF ~IsSome(request) \/ trim(body.sentence) = EmptyStr
    THEN Finish([rq EXCEPT !.body = body], Propagate("decode"))
    ELSE [rq EXCEPT !.pc = "decoded", !.body = body,
                    !.sentence = trim(Unwrapped(request).sentence)]

\* lib.rs lines 57-60: decode the body, trim the sentence
Decode(rq, body) ==
    LET request == body_json_to_map(body) IN
    IF ~IsSome(request) THEN Finish([rq EXCEPT !.body = body], Propagate("decode"))
    ELSE [rq EXCEPT !.pc = "decoded", !.body = body,
                    !.sentence = trim(Unwrapped(request).sentence)]

\* lib.rs line 63: Store::open_default()?
OpenDefault(rq, opened) ==
    IF opened THEN [rq EXCEPT !.pc = "opened", !.open = "ok"]
    ELSE Finish([rq EXCEPT !.open = "err"], Propagate("store_open"))

\* Store::get: Err, or Ok of the value under the key; the outcome as a tag
kv_get(st, key, fails) ==
    IF fails THEN "err" ELSE IF IsSome(st[key]) THEN "found" ELSE "absent"

\* lib.rs lines 73-83 without the return of line 81: a hit falls through
CacheLookup_mut_noreturn(rq, st, fails) ==
    LET got == kv_get(st, rq.sentence, fails)
        asked == [Called(rq, "get", rq.sentence, <<>>) EXCEPT !.get = got]
    IN  IF got = "absent" THEN Finish(asked, Panicked)
        ELSE [asked EXCEPT !.pc = "missed"]

\* lib.rs lines 73-83: if let Ok(sentiment) = kv.get(sentence) { ... }
CacheLookup(rq, st, fails) ==
    LET got == kv_get(st, rq.sentence, fails)
        asked == [Called(rq, "get", rq.sentence, <<>>) EXCEPT !.get = got]
    IN  IF got = "err" THEN [asked EXCEPT !.pc = "missed"]
        ELSE IF got = "absent" THEN Finish(asked, Panicked)
        ELSE LET cached == from_utf8(Unwrapped(st[rq.sentence])) IN
             IF IsSome(cached)
             THEN Finish(asked, send_ok_response(OkStatus, Unwrapped(cached)))
             ELSE Finish(asked, Propagate("utf8"))

\* lib.rs lines 87-94 with the inference error swallowed
Inference_mut_swallow(rq, out) ==
    LET prompt == replace(PROMPT, "{SENTENCE}", rq.sentence)
        asked == [Called(rq, "infer", prompt, <<>>) EXCEPT !.prompt = Some(prompt)]
    IN
    IF ~IsSome(out) THEN [asked EXCEPT !.pc = "inferred", !.infer = "err", !.text = EmptyStr]
    ELSE [asked EXCEPT !.pc = "inferred", !.infer = "ok", !.text = Unwrapped(out)]

\* lib.rs lines 87-94 with the untrimmed sentence put into the prompt
Inference_mut_rawprompt(rq, out) ==
    LET prompt == replace(PROMPT, "{SENTENCE}", rq.body.sentence)
        asked == [Called(rq, "infer", prompt, <<>>) EXCEPT !.prompt = Some(prompt)]
    IN
    IF ~IsSome(out) THEN Finish([asked EXCEPT !.infer = "err"], Propagate("inference"))
    ELSE [asked EXCEPT !.pc = "inferred", !.infer = "ok", !.text = Unwrapped(out)]

\* lib.rs lines 87-94: infer_with_options(...)?; out is None for Err
Inference(rq, out) ==
    LET prompt == replace(PROMPT, "{SENTENCE}", rq.sentence)
        asked == [Called(rq, "infer", prompt, <<>>) EXCEPT !.prompt = Some(prompt)]
    IN
    IF ~IsSome(out) THEN Finish([asked EXCEPT !.infer = "err"], Propagate("inference"))
    ELSE [asked EXCEPT !.pc = "inferred", !.infer = "ok", !.text = Unwrapped(out)]

\* lib.rs lines 98-106
Classify(rq) == [rq EXCEPT !.pc = "parsed", !.sentiment = parse_sentiment(rq.text)]

\* Store::set losing the entry when the call fails
kv_set_mut_evict(st, key, value, fails) ==
    IF fails THEN [st EXCEPT ![key] = None] ELSE [st EXCEPT ![key] = Some(value)]

\* Store::set: the store after the call
kv_set(st, key, value, fails) == IF fails THEN st ELSE [st EXCEPT ![key] = Some(value)]

\* lib.rs line 110 writing no bytes
CachedValue_mut_empty(rq) == <<>>

\* lib.rs line 110: sentiment.as_str().as_bytes()
CachedValue(rq) == as_bytes(as_str(rq.sentiment))

\* lib.rs lines 108-111 with the result of kv.set propagated
CacheStore_mut_propagate(rq, fails) ==
    LET asked == Called(rq, "set", rq.sentence, CachedValue(rq)) IN
    IF fails THEN Finish([asked EXCEPT !.set = "err"], Propagate("store_set"))
    ELSE [asked EXCEPT !.pc = "cached", !.set = "ok"]

\* lib.rs lines 108-111: let _ = kv.set(...), the request's side
CacheStore(rq, fails) ==
    [Called(rq, "set", rq.sentence, CachedValue(rq)) EXCEPT
        !.pc = "cached", !.set = IF fails THEN "err" ELSE "ok"]

\* lib.rs line 108: if let Ok(sentiment) = sentiment
WantsCache(rq) == IsOk(rq.sentiment)

\* lib.rs lines 114-123 answering the raw first line when no label was parsed
Respond_mut_rawtext(rq) ==
    Finish(rq, send_ok_response(OkStatus,
                                IF IsOk(rq.sentiment) THEN to_string(rq.sentiment)
                                ELSE first_line(rq.text)))

\* lib.rs lines 114-123
Respond(rq) ==
    Finish(rq, send_ok_response(OkStatus,
                                IF IsOk(rq.sentiment) THEN to_string(rq.sentiment)
                                ELSE EmptyStr))

(***************************************************************************)
(* The component: each request runs perform_sentiment_analysis, one store  *)
(* or model call per step; requests interleave.                            *)
(***************************************************************************)
ParserIdle == ptext = EmptyStr /\ pstage = "off" /\ pval = EmptyStr /\ pres = "unset"

PipelineIdle == store = [k \in Keys |-> None] /\ req = [r \in Requests |-> IdleRequest]

Init == PipelineIdle /\ ParserIdle

\* the store changed under a step of request r
Touched(r, rq) == [rq EXCEPT !.changed = req[r].changed \/ store' # store]

\* requests are told apart only by their number: they arrive in that order.
\* lib.rs lines 57-63
Receive(r) ==
    /\ req[r].pc = "idle"
    /\ \A q \in Requests : q < r => req[q].pc # "idle"
    /\ \E body \in Bodies, opened \in BOOLEAN :
         LET started == [req[r] EXCEPT !.after = {q \in Requests : req[q].pc = "done"}]
             decoded == Decode(started, body)
         IN  req' = [req EXCEPT ![r] =
                        IF decoded.pc = "decoded" THEN OpenDefault(decoded, opened)
                        ELSE decoded]
    /\ UNCHANGED <<store, ptext, pstage, pval, pres>>

\* lib.rs lines 73-83
Get(r) ==
    /\ req[r].pc = "opened"
    /\ \E fails \in BOOLEAN : req' = [req EXCEPT ![r] = CacheLookup(req[r], store, fails)]
    /\ UNCHANGED <<store, ptext, pstage, pval, pres>>

\* lib.rs lines 87-106, and lines 114-123 when there is no label to cache:
\* the steps after the model call that touch nothing shared run with it
Infer(r) ==
    /\ req[r].pc = "missed"
    /\ \E out \in {None} \cup {Some(t) : t \in Texts} :
         LET inferred == Inference(req[r], out)
             parsed == Classify(inferred)
         IN  req' = [req EXCEPT ![r] =
                        IF inferred.pc # "inferred" THEN inferred
                        ELSE IF WantsCache(parsed) THEN parsed
                        ELSE Respond(parsed)]
    /\ UNCHANGED <<store, ptext, pstage, pval, pres>>

\* lib.rs lines 108-123: kv.set, then the response
Set(r) ==
    /\ req[r].pc = "parsed"
    /\ WantsCache(req[r])
    /\ \E fails \in BOOLEAN :
         LET stored == CacheStore(req[r], fails)
             call == stored.calls[Len(stored.calls)]
         IN  /\ store' = kv_set(store, call.arg, call.val, fails)
             /\ req' = [req EXCEPT ![r] =
                            Touched(r, IF stored.pc = "cached" THEN Respond(stored)
                                       ELSE stored)]
    /\ UNCHANGED <<ptext, pstage, pval, pres>>

Next ==
    \E r \in Requests :
        \/ Receive(r)
        \/ Get(r)
        \/ Infer(r)
        \/ Set(r)

Spec == Init /\ [][Next]_vars

(***************************************************************************)
(* The Classifier's parsing alone (lib.rs lines 98-105), one call of the   *)
(* chain per step, on generated texts built from a marker, blanks, a word  *)
(* and what follows the first line.                                        *)
(***************************************************************************)
RECURSIVE Blanks(_)
Blanks(n) == IF n = 0 THEN EmptyStr ELSE <<" ">> \o Blanks(n - 1)

Pads == {Blanks(n) : n \in 0..MaxPad}

Heads == {BotMarker, EmptyStr, <<" ">> \o BotMarker, <<"b", "o", "t", ":">>}

Words ==
    Labels \cup {EmptyStr, <<"P", "o", "s", "i", "t", "i", "v", "e">>,
                 str_positive \o <<"!">>, str_positive \o <<" ">> \o str_negative}

Rests == {EmptyStr, <<"\n">> \o str_negative, <<"\r", "\n">> \o BotMarker \o str_neutral}

ParseInputs ==
    {h \o p1 \o w \o p2 \o t : h \in Heads, p1 \in Pads, w \in Words, p2 \in Pads, t \in Rests}

InitParse ==
    /\ PipelineIdle
    /\ ptext \in ParseInputs
    /\ pstage = "text"
    /\ pval = ptext
    /\ pres = "unset"

\* lib.rs lines 100-102
TakeFirstLine ==
    /\ pstage = "text"
    /\ pval' = first_line(pval)
    /\ pstage' = "line"
    /\ UNCHANGED <<store, req, ptext, pres>>

\* lib.rs lines 103-104
StripMarker ==
    /\ pstage = "line"
    /\ pval' = strip_marker(pval)
    /\ pstage' = "stripped"
    /\ UNCHANGED <<store, req, ptext, pres>>

\* lib.rs line 105
ParseLabel ==
    /\ pstage = "stripped"
    /\ pres' = from_str(pval)
    /\ pstage' = "parsed"
    /\ UNCHANGED <<store, req, ptext, pval>>

NextParse == TakeFirstLine \/ StripMarker \/ ParseLabel

SpecParse == InitParse /\ [][NextParse]_vars

(***************************************************************************)
(* Properties.                                                             *)
(***************************************************************************)
Done(r) == req[r].pc = "done"

Answered(r) == req[r].response.kind = "response"

\* the text starts with the literal marker "Bot:"
StartsWithMarker(text) == Len(text) >= Len(BotMarker) /\ SubSeq(text, 1, Len(BotMarker)) = BotMarker

\* no request other than r1 and r2 has called kv.set
NoOtherWriter(r1, r2) == \A q \in Requests \ {r1, r2} : req[q].set = "unissued"

\* C1: two requests with the same sentence, one after the other, in a healthy
\* environment (store opens, get and set succeed, the model answers) and with
\* no other writer: the second is a cache hit, invokes no model inference, and
\* both return the same sentiment.
C1_SecondCallHits ==
    \A r1, r2 \in Requests :
        ( /\ r1 # r2 /\ Done(r1) /\ Done(r2)
          /\ r1 \in req[r2].after
          /\ req[r1].body.kind = "json" /\ req[r2].body.kind = "json"
          /\ req[r1].sentence = req[r2].sentence
          /\ \A r \in {r1, r2} :
                /\ req[r].open = "ok"
                /\ req[r].get # "err"
                /\ req[r].infer # "err"
                /\ req[r].set # "err"
          /\ NoOtherWriter(r1, r2) )
        => /\ req[r2].get = "found"
           /\ req[r2].infer = "unissued"
           /\ Answered(r1) /\ Answered(r2)
           /\ req[r1].response.sentiment = req[r2].response.sentiment

\* C2: a lookup that succeeds with no value for the trimmed sentence routes
\* to the Classifier: the request invokes the model and ends with a response,
\* it neither aborts nor answers from the cache.
C2_FreshMissClassifies ==
    \A r \in Requests :
        (Done(r) /\ req[r].get = "absent")
        => /\ req[r].infer # "unissued"
           /\ req[r].response.kind \in {"response", "error"}

\* C3: a request whose body decodes and whose model call, if made, succeeds
\* ends with a 200 response, whatever the store does.
C3_OnlyDecodeAndInferenceFail ==
    \A r \in Requests :
        (Done(r) /\ req[r].body.kind = "json" /\ req[r].infer # "err")
        => Answered(r) /\ req[r].response.status = OkStatus

\* C4: a failed cache read is handled exactly like a miss: the request goes
\* on to model inference, and a request that missed (get succeeded with no
\* value) on the same sentence went on to inference too; when the model
\* answers both alike, their responses and cache writes are the same.
C4_ReadFailureLikeMiss ==
    \A f, m \in Requests :
        ( /\ Done(f) /\ req[f].get = "err"
          /\ Done(m) /\ req[m].get = "absent"
          /\ req[f].sentence = req[m].sentence )
        => /\ req[f].infer # "unissued"
           /\ req[m].infer # "unissued"
           /\ (req[f].infer = req[m].infer /\ req[f].text = req[m].text)
                => /\ req[f].response = req[m].response
                   /\ (req[f].set = "unissued") = (req[m].set = "unissued")

\* C5: when the model output parsed to a label and kv.set returned an error,
\* the request still ends with a 200 response carrying that label.
C5_SetFailureSwallowed ==
    \A r \in Requests :
        (Done(r) /\ req[r].set = "err")
        => /\ Answered(r)
           /\ req[r].response.status = OkStatus
           /\ req[r].response.err = ""
           /\ req[r].sentiment = "Positive" => req[r].response.sentiment = str_positive
           /\ req[r].sentiment = "Negative" => req[r].response.sentiment = str_negative
           /\ req[r].sentiment = "Neutral" => req[r].response.sentiment = str_neutral
           /\ req[r].sentiment \in Sentiment

C5_Witness ==
    \E r \in Requests :
        /\ Done(r) /\ req[r].set = "err"
        /\ req[r].text = txt_bot_positive
        /\ req[r].response = send_ok_response(OkStatus, str_positive)

\* generated texts that are no "Bot:" + label line: extra words, other
\* casing, empty text
UnrecognizedExamples == {txt_bot_positive_ish, txt_bot_Positive, txt_empty}

\* C6: when the model was invoked successfully and its output yields no
\* canonical label, the response is 200 with the empty sentiment, no kv.set is
\* issued and the request leaves the store as it was.
C6_UnrecognizedNotCached ==
    \A r \in Requests :
        ( /\ Done(r) /\ req[r].infer = "ok"
          /\ req[r].sentiment \notin Sentiment \/ req[r].text \in UnrecognizedExamples )
        => /\ req[r].response = send_ok_response(OkStatus, EmptyStr)
           /\ req[r].set = "unissued"
           /\ ~req[r].changed

C6_Witness ==
    \E r \in Requests :
        /\ Done(r) /\ req[r].infer = "ok"
        /\ req[r].text = txt_bot_positive_ish
        /\ req[r].response.sentiment = EmptyStr
        /\ store[req[r].sentence] = None

\* C7: when infer_with_options returns an error the request fails with a
\* 5xx status, after the one lookup it already made; no kv.set is issued and
\* the request leaves the store as it was.
C7_InferenceFailureNoWrite ==
    \A r \in Requests :
        (Done(r) /\ req[r].infer = "err")
        => /\ req[r].response.kind = "error"
           /\ req[r].response.err = "inference"
           /\ req[r].response.status \in 500..599
           /\ req[r].get = "err"
           /\ req[r].set = "unissued"
           /\ ~req[r].changed

C7_Witness ==
    \E r \in Requests :
        /\ Done(r) /\ req[r].infer = "err"
        /\ req[r].response.kind = "error"
        /\ IsSome(req[r].prompt)

\* C8: an absent request body yields a 4xx failure; the request invokes no
\* model, opens no store, reads and writes no cache entry.
C8_AbsentBodyIs4xx ==
    \A r \in Requests :
        (Done(r) /\ req[r].body.kind = "absent")
        => /\ req[r].response.kind = "error"
           /\ req[r].response.status \in 400..499
           /\ req[r].infer = "unissued"
           /\ req[r].open = "unissued"
           /\ req[r].get = "unissued"
           /\ req[r].set = "unissued"

\* C9: only the first line of the generated text is classified: when it is
\* "Bot:" followed by one canonical lowercase label with blanks around it, the
\* result is the matching Sentiment whatever follows the first line; and a
\* Sentiment results only from such a first line (exact, case-sensitive).
C9_FirstLineLabel ==
    pstage = "parsed" =>
        /\ \A p1 \in Pads, p2 \in Pads, t \in Rests :
              /\ ptext = BotMarker \o p1 \o str_positive \o p2 \o t => pres = "Positive"
              /\ ptext = BotMarker \o p1 \o str_negative \o p2 \o t => pres = "Negative"
              /\ ptext = BotMarker \o p1 \o str_neutral \o p2 \o t => pres = "Neutral"
        /\ pres \in Sentiment =>
              \E p1 \in Pads, p2 \in Pads, w \in Labels, t \in Rests :
                  /\ ptext = BotMarker \o p1 \o w \o p2 \o t
                  /\ w = str_positive <=> pres = "Positive"
                  /\ w = str_negative <=> pres = "Negative"
                  /\ w = str_neutral <=> pres = "Neutral"
        /\ pres \in Sentiment \cup {InvalidSentiment}

C9_Witness ==
    /\ pstage = "parsed"
    /\ ptext = BotMarker \o <<" ">> \o str_positive \o <<"\n">> \o str_negative
    /\ pres = "Positive"

\* C10 as stated: a generated first line without the "Bot:" marker that is
\* just a canonical label is classified as that label, returned and cached.
C10_MarkerOptional ==
    \A r \in Requests :
        ( /\ Done(r) /\ req[r].infer = "ok"
          /\ ~StartsWithMarker(req[r].text)
          /\ trim(first_line(req[r].text)) \in Labels )
        => /\ req[r].response = send_ok_response(OkStatus, trim(first_line(req[r].text)))
           /\ req[r].set # "unissued"

\* C10 amended: the "Bot:" marker is required: when the first line of the
\* generated text does not start with it, no label results, even from a first
\* line that is just a canonical label: the response is 200 with the empty
\* sentiment and nothing is cached.
C10_MarkerRequired ==
    \A r \in Requests :
        (Done(r) /\ req[r].infer = "ok" /\ ~StartsWithMarker(req[r].text))
        => /\ req[r].sentiment = InvalidSentiment
           /\ req[r].response = send_ok_response(OkStatus, EmptyStr)
           /\ req[r].set = "unissued"
           /\ ~req[r].changed

C10_Witness ==
    \E r \in Requests :
        /\ Done(r) /\ req[r].infer = "ok"
        /\ req[r].text = txt_positive
        /\ req[r].response = send_ok_response(OkStatus, EmptyStr)
        /\ store[req[r].sentence] = None

(***************************************************************************)
(* Properties of the responses, the cache entries and the calls.           *)
(***************************************************************************)
\* the bytes of the canonical labels, written out
bytes_positive == <<112, 111, 115, 105, 116, 105, 118, 101>>
bytes_negative == <<110, 101, 103, 97, 116, 105, 118, 101>>
bytes_neutral == <<110, 101, 117, 116, 114, 97, 108>>

LabelBytes == {bytes_positive, bytes_negative, bytes_neutral}

\* the bytes of a label string, by the table above
BytesOfLabel(l) ==
    CASE l = str_positive -> bytes_positive
      [] l = str_negative -> bytes_negative
      [] l = str_neutral -> bytes_neutral
      [] OTHER -> <<>>

\* the label the pipeline texts carry on a "Bot:" first line, if any
LabelOfText(t) ==
    CASE t = txt_bot_positive -> str_positive
      [] t = txt_bot_negative_more -> str_negative
      [] t = txt_bot_neutral -> str_neutral
      [] OTHER -> EmptyStr

\* C11: in every 200 response, served from the cache or freshly classified,
\* the sentiment is "positive", "negative", "neutral" or the empty string, and
\* it is empty only when the request's classification produced no label.
C11_ResponseSentimentDomain ==
    \A r \in Requests :
        (Done(r) /\ Answered(r) /\ req[r].response.status = OkStatus)
        => /\ req[r].response.sentiment \in Labels \cup {EmptyStr}
           /\ req[r].response.sentiment = EmptyStr
                => (req[r].infer = "ok" /\ LabelOfText(req[r].text) = EmptyStr)

C11_Witness ==
    \E h, w \in Requests :
        /\ Done(h) /\ req[h].get = "found"
        /\ req[h].response = send_ok_response(OkStatus, str_neutral)
        /\ Done(w) /\ req[w].set = "ok" /\ req[w].text = txt_bot_neutral
        /\ req[w].response = send_ok_response(OkStatus, str_neutral)

\* request r, whose own lookup failed, writes its label under key k in this step
WritesLabel(r, k) ==
    /\ req[r].pc = "parsed" /\ req[r].get = "err" /\ req[r].infer = "ok"
    /\ req[r].sentence = k
    /\ req'[r].set = "ok"
    /\ LabelOfText(req[r].text) \in Labels
    /\ store'[k] = Some(BytesOfLabel(LabelOfText(req[r].text)))

\* C12 as stated: once a key holds a value, no later step changes or removes
\* that key's value.
C12_NeverUpdated ==
    [][\A k \in Keys : IsSome(store[k]) => store'[k] = store[k]]_vars

\* C12 amended: an entry is created by a request that classified the sentence
\* to a label and whose set succeeded, and it is never evicted; it can be
\* overwritten, only by a later set of a request whose own lookup failed and
\* whose model output parsed to a label, with that label.
C12_NeverEvicted ==
    [][\A k \in Keys :
          /\ IsSome(store[k]) => IsSome(store'[k])
          /\ store'[k] # store[k] => \E r \in Requests : WritesLabel(r, k)]_vars

C12_Witness ==
    \E r1, r2 \in Requests :
        /\ r1 \in req[r2].after
        /\ req[r1].sentence = req[r2].sentence
        /\ req[r1].set = "ok" /\ req[r1].text = txt_bot_positive
        /\ req[r2].set = "ok" /\ req[r2].text = txt_bot_neutral
        /\ store[req[r2].sentence] = Some(bytes_neutral)

\* the value of the kv.set call request r has made
Written(r) == req[r].calls[Len(req[r].calls)].val

\* C14 as stated: all successful writes of requests with the same sentence
\* store the same value.
C14_WritesAgree ==
    \A r1, r2 \in Requests :
        (req[r1].set = "ok" /\ req[r2].set = "ok" /\ req[r1].sentence = req[r2].sentence)
        => Written(r1) = Written(r2)

\* C14 amended: writes to one key are last-write-wins: every successful set
\* stores, under the writing request's trimmed sentence, the label parsed from
\* that request's own model output, whatever the key held, and leaves the
\* other keys alone; requests with the same sentence may store different labels.
C14_LastWriteWins ==
    [][\A r \in Requests :
          (req[r].pc = "parsed" /\ req'[r].set = "ok")
          => /\ store'[req[r].sentence] = Some(BytesOfLabel(LabelOfText(req[r].text)))
             /\ LabelOfText(req[r].text) \in Labels
             /\ \A k \in Keys \ {req[r].sentence} : store'[k] = store[k]]_vars

C14_Witness ==
    \E r1, r2 \in Requests :
        /\ r1 \notin req[r2].after /\ r2 \notin req[r1].after
        /\ r1 # r2
        /\ req[r1].sentence = req[r2].sentence
        /\ req[r1].set = "ok" /\ req[r2].set = "ok"
        /\ Written(r1) = bytes_negative /\ Written(r2) = bytes_positive
        /\ store[req[r1].sentence] = Some(bytes_negative)

\* the sentences of the model with leading and trailing blanks removed,
\* written out
TrimmedOf(raw) ==
    CASE raw = <<"a">> -> <<"a">>
      [] raw = <<" ", "a">> -> <<"a">>
      [] OTHER -> EmptyStr

\* C15: the sentence is trimmed once and the same trimmed string is the key of
\* kv.get, the text put into the prompt and the key of kv.set; so a request
\* whose sentence differs only in surrounding blanks from that of an earlier
\* request that stored its label finds that entry.
C15_OneTrimmedKey ==
    /\ \A r \in Requests :
          (req[r].pc # "idle" /\ req[r].body.kind = "json")
          => /\ req[r].sentence = TrimmedOf(req[r].body.sentence)
             /\ \A i \in 1..Len(req[r].calls) :
                   LET call == req[r].calls[i] IN
                   /\ call.op \in {"get", "set"} => call.arg = TrimmedOf(req[r].body.sentence)
                   /\ call.op = "infer"
                        => call.arg = <<"<<SYS>>...User: ">>
                                          \o TrimmedOf(req[r].body.sentence) \o <<"\n">>
    /\ \A r1, r2 \in Requests :
          ( /\ r1 \in req[r2].after
            /\ req[r1].set = "ok"
            /\ TrimmedOf(req[r1].body.sentence) = TrimmedOf(req[r2].body.sentence)
            /\ req[r2].get \in {"found", "absent"} )
          => req[r2].get = "found"

C15_Witness ==
    \E r1, r2 \in Requests :
        /\ r1 \in req[r2].after
        /\ req[r1].body.sentence = <<"a">> /\ req[r1].set = "ok"
        /\ req[r1].calls[2].arg = <<"<<SYS>>...User: ", "a", "\n">>
        /\ req[r2].body.sentence = <<" ", "a">> /\ req[r2].get = "found"
        /\ Answered(r2)

\* the collaborator calls request r has made, in order
Ops(r) == [i \in 1..Len(req[r].calls) |-> req[r].calls[i].op]

\* C16: a request is one sequence decode, cache read, [model call, cache
\* write], encode, without retries: at most one read, one model call and one
\* write, in that order; nothing is called when the body does not decode; a
\* request that finds a stored value calls no model and writes nothing; a
\* write follows only a model call that succeeded and parsed to a label; a
\* response is encoded only after the read.
C16_OneSequence ==
    \A r \in Requests :
        /\ Ops(r) \in {<<>>, <<"get">>, <<"get", "infer">>, <<"get", "infer", "set">>}
        /\ req[r].body.kind # "json" => Ops(r) = <<>>
        /\ req[r].get = "found" => Ops(r) = <<"get">>
        /\ (\E i \in 1..Len(Ops(r)) : Ops(r)[i] = "set")
             => (req[r].infer = "ok" /\ LabelOfText(req[r].text) \in Labels)
        /\ Answered(r) => (Done(r) /\ Ops(r) # <<>>)
        /\ (Answered(r) /\ Ops(r) # <<"get">>)
             => (req[r].infer = "ok"
                 /\ (LabelOfText(req[r].text) \in Labels <=> Ops(r) = <<"get", "infer", "set">>))

C16_Witness ==
    \E w, h \in Requests :
        /\ Done(w) /\ Answered(w) /\ Ops(w) = <<"get", "infer", "set">>
        /\ Done(h) /\ Answered(h) /\ Ops(h) = <<"get">> /\ req[h].get = "found"

\* request r carries a well-formed body whose sentence is empty or blank
EmptyInput(r) ==
    /\ req[r].pc # "idle"
    /\ req[r].body.kind = "json"
    /\ req[r].body.sentence \in {EmptyStr, <<" ">>}

\* C17: a request whose sentence is empty or whitespace-only decodes, is
\* trimmed to the empty string and takes the path of any other sentence, with
\* the empty string as the key of its lookup and of its cache entry: under the
\* same outcomes of the store and the model it makes the same calls and gets
\* the same response as a request with a non-empty sentence.
C17_EmptyNotRejected ==
    \A r \in Requests :
        EmptyInput(r)
        => /\ req[r].response.err # "decode"
           /\ req[r].sentence = EmptyStr
           /\ req[r].open = "ok" => req[r].pc # "done" \/ req[r].get # "unissued"
           /\ \A i \in 1..Len(req[r].calls) :
                 req[r].calls[i].op \in {"get", "set"} => req[r].calls[i].arg = EmptyStr
           /\ req[r].set = "ok" => IsSome(store[EmptyStr])
           /\ \A q \in Requests :
                 ( /\ Done(r) /\ Done(q)
                   /\ req[q].body.kind = "json" /\ req[q].sentence # EmptyStr
                   /\ req[q].open = req[r].open /\ req[q].get = req[r].get
                   /\ req[q].infer = req[r].infer /\ req[q].text = req[r].text
                   /\ req[q].set = req[r].set )
                 => (req[q].response = req[r].response /\ Ops(q) = Ops(r))

C17_Witness ==
    \E r, q \in Requests :
        /\ Done(r) /\ req[r].body.sentence = <<" ">>
        /\ req[r].set = "ok"
        /\ req[r].response = send_ok_response(OkStatus, str_positive)
        /\ store[EmptyStr] = Some(bytes_positive)
        /\ Done(q) /\ req[q].sentence = <<"a">>
        /\ req[q].set = "ok" /\ req[q].response = req[r].response

\* C18: starting from the empty store, under any interleaving of requests,
\* every value held by the store, and every value a request has passed to
\* kv.set, is the byte form of "positive", "negative" or "neutral": never the
\* empty string, never the raw model text.
C18_StoredValuesAreLabels ==
    /\ \A k \in Keys : IsSome(store[k]) => Unwrapped(store[k]) \in LabelBytes
    /\ \A r \in Requests : \A i \in 1..Len(req[r].calls) :
          req[r].calls[i].op = "set"
          => /\ req[r].calls[i].val \in LabelBytes
             /\ req[r].calls[i].val = BytesOfLabel(LabelOfText(req[r].text))

C18_Witness ==
    /\ store[<<"a">>] = Some(bytes_neutral)
    /\ store[EmptyStr] = Some(bytes_negative)
    /\ \E r \in Requests : req[r].text = txt_bot_negative_more /\ req[r].set = "ok"

\* C19: when a request classified its sentence to a label and its set
\* succeeded, the sentiment of its response is the string whose bytes it
\* stored under its trimmed sentence; and a request that hits an entry returns
\* the string of the bytes some request stored under that key, which is that
\* writer's own response sentiment.
C19_ResponseMatchesCache ==
    /\ \A w \in Requests :
          (Done(w) /\ req[w].set = "ok")
          => /\ Answered(w)
             /\ req[w].response.sentiment \in Labels
             /\ Written(w) = BytesOfLabel(req[w].response.sentiment)
             /\ req[w].calls[Len(req[w].calls)].arg = req[w].sentence
    /\ \A h \in Requests :
          (Done(h) /\ req[h].get = "found")
          => /\ Answered(h)
             /\ \E w \in Requests \ {h} :
                   /\ req[w].set = "ok"
                   /\ req[w].sentence = req[h].sentence
                   /\ Written(w) = BytesOfLabel(req[h].response.sentiment)
                   /\ Done(w) => req[w].response.sentiment = req[h].response.sentiment

C19_Witness ==
    \E w, h \in Requests :
        /\ Done(w) /\ req[w].set = "ok"
        /\ req[w].response = send_ok_response(OkStatus, str_negative)
        /\ w \in req[h].after
        /\ Done(h) /\ req[h].get = "found"
        /\ req[h].response = send_ok_response(OkStatus, str_negative)
        /\ store[req[h].sentence] = Some(bytes_negative)

====
